---------------------------- MODULE Spec2Model ----------------------------
(***************************************************************************)
(* Model of the client-side annotation filter (view-filter):               *)
(* filterAnnotations(annotations, filters) builds a tree of TermFilter and *)
(* BooleanOpFilter nodes from a parsed query and returns the ids of the    *)
(* annotations the tree matches.                                           *)
(*                                                                         *)
(* Strings are sequences of character tokens.  An optional value (a JS     *)
(* value that may be undefined/null) is a sequence of length at most one.  *)
(***************************************************************************)
EXTENDS Integers, Sequences, FiniteSets, TLC

VARIABLES
    annotations,  \* the `annotations` argument: a sequence of Annotation records
    filters,      \* the `filters` argument: Object.entries order, one entry per field
    now,          \* the value Date.now() returns
    future,       \* the clock readings still to come, in order
    outcome,      \* "idle" | "returned" | "threw": how the last call ended
    result,       \* the id list returned by the last call that returned
    readAt,       \* the value Date.now() had during the last call
    repeated      \* whether the last call was a repeated one (not the first)

vars == <<annotations, filters, now, future, outcome, result, readAt, repeated>>

-----------------------------------------------------------------------------
(* Bounds *)

MaxAnnotations == 2
MaxTerms == 2

(* (Date.now() - updatedTime) / 1000 *)
MsPerSecond == 1000

-----------------------------------------------------------------------------
(* Optional values *)

None == <<>>
Some(v) == <<v>>

\* x ?? dflt
Coalesce(x, dflt) == IF x = None THEN dflt ELSE x[1]

-----------------------------------------------------------------------------
(* Sequence helpers *)

RECURSIVE Flatten(_)
Flatten(ss) == IF ss = <<>> THEN <<>> ELSE Head(ss) \o Flatten(Tail(ss))

RECURSIVE SeqsUpTo(_, _)
SeqsUpTo(S, n) ==
    IF n = 0 THEN {<<>>}
    ELSE LET shorter == SeqsUpTo(S, n - 1)
         IN  shorter \cup {<<x>> \o s : x \in S, s \in {t \in shorter : Len(t) = n - 1}}

-----------------------------------------------------------------------------
(* Text Normalizer: unicodeUtils.normalize, unicodeUtils.fold, toLowerCase *)

CombiningMarks == {"acute"}

\* Compatibility decomposition of one character (NFKD).
Decompose(c) == IF c = "a_acute" THEN <<"a", "acute">> ELSE <<c>>

\* unicodeUtils.normalize
normalize(str) == Flatten([i \in 1..Len(str) |-> Decompose(str[i])])

\* unicodeUtils.fold: strip the combining marks
fold(str) == SelectSeq(str, LAMBDA c : c \notin CombiningMarks)

LowerChar(c) == CASE c = "A" -> "a" [] c = "B" -> "b" [] OTHER -> c

\* String.prototype.toLowerCase
toLowerCase(str) == [i \in 1..Len(str) |-> LowerChar(str[i])]

normalizeStr(val) == toLowerCase(fold(normalize(val)))

\* String.prototype.includes
includes(value, term) ==
    \E i \in 0..(Len(value) - Len(term)) : SubSeq(value, i + 1, i + Len(term)) = term

-----------------------------------------------------------------------------
(* Numbers: new Date(x).valueOf() is a number of milliseconds or NaN *)

NaN == [nan |-> TRUE, n |-> 0]
Num(n) == [nan |-> FALSE, n |-> n]

\* new Date(ann.updated).valueOf(): an unparseable timestamp gives NaN
DateValueOf(updated) == IF updated.iso THEN Num(updated.ms) ELSE NaN

\* The annotation-metadata accessor quote(ann): the quoted text, or nothing
quote(ann) == ann.quote

-----------------------------------------------------------------------------
(* Field Matcher Registry *)

StringFields == {"quote", "tag", "text", "uri", "user"}
RegistryFields == StringFields \cup {"since"}

\* matcher.fieldValues(ann)
fieldValues(field, ann) ==
    CASE field = "quote" -> <<Coalesce(quote(ann), <<>>)>>
      [] field = "since" -> <<DateValueOf(ann.updated)>>
      [] field = "tag"   -> ann.tags
      [] field = "text"  -> <<ann.text>>
      [] field = "uri"   -> <<ann.uri>>
      [] field = "user"  ->
            <<ann.user,
              Coalesce(IF ann.user_info = None THEN None
                       ELSE ann.user_info[1].display_name, <<>>)>>

\* matcher.normalize(val)
matcherNormalize(field, val) == IF field = "since" THEN val ELSE normalizeStr(val)

\* Mutant: delta < age
sinceMatchesStrict(updatedTime, age, clock) ==
    /\ ~updatedTime.nan
    /\ clock - updatedTime.n < age * MsPerSecond

\* Mutant: !(delta > age), which NaN satisfies
sinceMatchesNotGreater(updatedTime, age, clock) ==
    \/ updatedTime.nan
    \/ ~(clock - updatedTime.n > age * MsPerSecond)

\* fieldMatchers.since.matches(updatedTime, age), with Date.now() = clock:
\*   delta = (clock - updatedTime) / 1000;  delta <= age
\* Any comparison with NaN is false.
sinceMatches(updatedTime, age, clock) ==
    /\ ~updatedTime.nan
    /\ clock - updatedTime.n <= age * MsPerSecond

\* stringFieldMatcher(...).matches(value, term)
stringFieldMatches(value, term) == includes(value, term)

\* matcher.matches(value, term)
matcherMatches(field, value, term, clock) ==
    IF field = "since" THEN sinceMatches(value, term, clock)
    ELSE stringFieldMatches(value, term)

-----------------------------------------------------------------------------
(* Filter nodes *)

TypeError == [kind |-> "TypeError"]
IsError(x) == x.kind = "TypeError"

\* new TermFilter(term, fieldMatchers[field]): an unknown field gives an
\* undefined matcher, and matcher.normalize(term) throws.
TermFilter(term, field) ==
    IF field \notin RegistryFields THEN TypeError
    ELSE [kind |-> "term", term |-> matcherNormalize(field, term), field |-> field]

\* Mutant: every value must match, not some value
TermFilterMatchesEvery(f, ann, clock) ==
    LET values == fieldValues(f.field, ann)
    IN  \A i \in 1..Len(values) :
            matcherMatches(f.field, matcherNormalize(f.field, values[i]), f.term, clock)

\* TermFilter.matches(ann)
TermFilterMatches(f, ann, clock) ==
    LET values == fieldValues(f.field, ann)
    IN  \E i \in 1..Len(values) :
            matcherMatches(f.field, matcherNormalize(f.field, values[i]), f.term, clock)

\* new BooleanOpFilter(op, filters); an exception thrown while the children
\* were being built propagates.
BooleanOpFilter(op, children) ==
    IF \E i \in 1..Len(children) : IsError(children[i]) THEN TypeError
    ELSE [kind |-> "bool", operator |-> op, filters |-> children]

\* BooleanOpFilter.matches(ann) / TermFilter.matches(ann)
RECURSIVE matches(_, _, _)
matches(f, ann, clock) ==
    IF f.kind = "term" THEN TermFilterMatches(f, ann, clock)
    ELSE IF f.operator = "and"
         THEN \A i \in 1..Len(f.filters) : matches(f.filters[i], ann, clock)
         ELSE \E i \in 1..Len(f.filters) : matches(f.filters[i], ann, clock)

-----------------------------------------------------------------------------
(* filterAnnotations *)

makeTermFilter(field, term) == TermFilter(term, field)

\* Mutant: uri takes part in the "any" search
anyFieldsWithUri == <<"quote", "text", "tag", "uri", "user">>

anyFields == <<"quote", "text", "tag", "user">>

\* Mutant: facets with no terms are kept
nonEmptyFacetsKeepAll(entries) == entries

\* .filter(([, filter]) => filter.terms.length > 0)
nonEmptyFacets(entries) == SelectSeq(entries, LAMBDA e : Len(e.terms) > 0)

\* the .map callback: one facet's combinator node
fieldFilter(e) ==
    LET termFilters ==
            IF e.field = "any"
            THEN [t \in 1..Len(e.terms) |->
                     BooleanOpFilter("or",
                         [k \in 1..Len(anyFields) |->
                             makeTermFilter(anyFields[k], e.terms[t])])]
            ELSE [t \in 1..Len(e.terms) |-> makeTermFilter(e.field, e.terms[t])]
    IN  BooleanOpFilter(e.operator, termFilters)

fieldFilters(entries) ==
    LET kept == nonEmptyFacets(entries)
    IN  [i \in 1..Len(kept) |-> fieldFilter(kept[i])]

\* Mutant: the facets are combined with OR
rootFilterOr(entries) == BooleanOpFilter("or", fieldFilters(entries))

rootFilter(entries) == BooleanOpFilter("and", fieldFilters(entries))

\* Mutant: only a missing id is rejected, the empty string passes
truthyIdDefined(ann) == ann.id # None

\* ann.id && ...
truthyId(ann) == ann.id # None /\ ann.id[1] # ""

\* Mutant: the ids are collected back to front
matchingIdsReversed(anns, root, clock) ==
    LET kept == SelectSeq(anns, LAMBDA ann : truthyId(ann) /\ matches(root, ann, clock))
    IN  [i \in 1..Len(kept) |-> kept[Len(kept) + 1 - i].id[1]]

\* annotations.filter(ann => ann.id && rootFilter.matches(ann)).map(ann => ann.id)
matchingIds(anns, root, clock) ==
    LET kept == SelectSeq(anns, LAMBDA ann : truthyId(ann) /\ matches(root, ann, clock))
    IN  [i \in 1..Len(kept) |-> kept[i].id[1]]

\* What filterAnnotations(anns, entries) does when Date.now() = clock:
\* it throws while building the tree, or returns the matching ids.
callResult(anns, entries, clock) ==
    LET root == rootFilter(entries)
    IN  IF IsError(root)
        THEN [outcome |-> "threw", result |-> <<>>]
        ELSE [outcome |-> "returned", result |-> matchingIds(anns, root, clock)]

\* Mutant: the call consumes the collection it was given
filterAnnotationsShifting ==
    /\ LET r == callResult(annotations, filters, now)
       IN  /\ outcome' = r.outcome
           /\ result' = r.result
    /\ readAt' = now
    /\ repeated' = (outcome # "idle")
    /\ annotations' = <<>>
    /\ UNCHANGED <<filters, now, future>>

\* One call of filterAnnotations(annotations, filters).  The call is
\* synchronous; Date.now() is taken to read the same value throughout it.
filterAnnotations ==
    /\ LET r == callResult(annotations, filters, now)
       IN  /\ outcome' = r.outcome
           /\ result' = r.result
    /\ readAt' = now
    /\ repeated' = (outcome # "idle")
    /\ UNCHANGED <<annotations, filters, now, future>>

\* The wall clock moves on to its next reading.
Tick ==
    /\ future # <<>>
    /\ now' = Head(future)
    /\ future' = Tail(future)
    /\ UNCHANGED <<annotations, filters, outcome, result, readAt, repeated>>

Next == filterAnnotations \/ Tick

-----------------------------------------------------------------------------
(* Inputs *)

Operators == {"and", "or"}

Timestamp(ms) == [iso |-> TRUE, ms |-> ms]
Unparseable == [iso |-> FALSE, ms |-> 0]

BaseAnnotation ==
    [id |-> Some("a1"), text |-> <<"c">>, tags |-> <<>>, uri |-> <<"c">>,
     user |-> <<"c">>, user_info |-> None, updated |-> Timestamp(120000),
     quote |-> Some(<<"c">>)]

\* A value whose normal form "ba" differs from it in case and in diacritics
Accented == <<"B", "a_acute">>

\* A facet of `field`: up to MaxTerms terms drawn from `terms`, either operator
Facets(field, terms) ==
    {[field |-> field, terms |-> ts, operator |-> op] :
        ts \in SeqsUpTo(terms, MaxTerms), op \in Operators}

\* A facet of `field` with exactly one term
SingleTermFacets(field, terms) ==
    {[field |-> field, terms |-> <<t>>, operator |-> op] : t \in terms, op \in Operators}

\* The queries whose entries are facets of facetsOf[f], for some of the
\* fields f of the sequence `fields`, in that order
RECURSIVE QueriesOver(_, _)
QueriesOver(fields, facetsOf) ==
    IF fields = <<>> THEN {<<>>}
    ELSE LET rest == QueriesOver(Tail(fields), facetsOf)
         IN  rest \cup {<<e>> \o q : e \in facetsOf[Head(fields)], q \in rest}

InitCall(anns, queries, readings) ==
    /\ annotations \in SeqsUpTo(anns, MaxAnnotations)
    /\ filters \in queries
    /\ now = Head(readings)
    /\ future = Tail(readings)
    /\ outcome = "idle"
    /\ result = <<>>
    /\ readAt = Head(readings)
    /\ repeated = FALSE

(* Spec: ids of every kind, a known and an unknown field *)

Ids == {None, Some(""), Some("a1"), Some("a2")}

AnnsGeneral ==
    {[BaseAnnotation EXCEPT !.id = i, !.text = t] : i \in Ids, t \in {Accented, <<"c">>}}

FacetsGeneral == [f \in {"text", "result"} |-> Facets(f, {<<"A">>})]

Init ==
    InitCall(AnnsGeneral, QueriesOver(<<"text", "result">>, FacetsGeneral),
             <<120000, 180000>>)

Spec == Init /\ [][Next]_vars

(* SpecOps: two facets, several terms, both operators *)

AnnsOps ==
    { [BaseAnnotation EXCEPT !.id = Some("a"), !.text = <<"a">>],
      [BaseAnnotation EXCEPT !.id = Some("ab"), !.text = <<"a", "b">>],
      [BaseAnnotation EXCEPT !.id = Some("c"), !.text = <<"c">>],
      [BaseAnnotation EXCEPT !.id = Some("a+tag"), !.text = <<"a">>, !.tags = <<<<"a">>>>],
      [BaseAnnotation EXCEPT !.id = Some("ab+tag"), !.text = <<"a", "b">>,
                             !.tags = <<<<"a">>>>],
      [BaseAnnotation EXCEPT !.id = Some("c+tag"), !.text = <<"c">>, !.tags = <<<<"a">>>>] }

FacetsOps ==
    [f \in {"text", "tag"} |->
        IF f = "text" THEN Facets(f, {<<"a">>, <<"b">>})
        ELSE SingleTermFacets(f, {<<"a">>})]

InitOps == InitCall(AnnsOps, QueriesOver(<<"text", "tag">>, FacetsOps), <<120000, 180000>>)

SpecOps == InitOps /\ [][Next]_vars

(* SpecText: one term on one field, annotations that differ in one field *)

AnnsText ==
    { [BaseAnnotation EXCEPT !.id = Some("none")],
      [BaseAnnotation EXCEPT !.id = Some("text"), !.text = Accented],
      [BaseAnnotation EXCEPT !.id = Some("noquote"), !.quote = None],
      [BaseAnnotation EXCEPT !.id = Some("quote"), !.quote = Some(Accented)],
      [BaseAnnotation EXCEPT !.id = Some("uri"), !.uri = Accented],
      [BaseAnnotation EXCEPT !.id = Some("user"), !.user = Accented],
      [BaseAnnotation EXCEPT !.id = Some("noname"),
                             !.user_info = Some([display_name |-> None])],
      [BaseAnnotation EXCEPT !.id = Some("name"),
                             !.user_info = Some([display_name |-> Some(Accented)])],
      [BaseAnnotation EXCEPT !.id = Some("tag1"), !.tags = <<<<"c">>>>],
      [BaseAnnotation EXCEPT !.id = Some("tag2"), !.tags = <<<<"c">>, Accented>>] }

TermsText == {<<>>, <<"A">>, <<"b", "a", "acute">>}

QueriesText ==
    UNION {{<<e>> : e \in SingleTermFacets(f, TermsText)} :
              f \in {"any", "quote", "tag", "text", "uri", "user"}}

InitText == InitCall(AnnsText, QueriesText, <<120000, 180000>>)

SpecText == InitText /\ [][Next]_vars

(* SpecSince: the clock moves between calls *)

AnnsSince ==
    {[BaseAnnotation EXCEPT !.id = Some("a1"), !.updated = u, !.text = Accented] :
        u \in {Unparseable, Timestamp(60000), Timestamp(90000)}}
    \cup
    {[BaseAnnotation EXCEPT !.id = Some("a2"), !.updated = u] :
        u \in {Unparseable, Timestamp(90000), Timestamp(120000)}}

FacetsSince ==
    [f \in {"since", "text"} |->
        IF f = "since" THEN Facets(f, {0, 60})
        ELSE {[field |-> f, terms |-> <<<<"A">>>>, operator |-> "and"]}]

InitSince ==
    InitCall(AnnsSince, QueriesOver(<<"since", "text">>, FacetsSince),
             <<120000, 120001, 180000>>)

SpecSince == InitSince /\ [][Next]_vars

-----------------------------------------------------------------------------
(* Vocabulary of the properties *)

Called == outcome # "idle"

NonEmptyId(ann) == Len(ann.id) = 1 /\ ann.id[1] # ""

ResultIds == {result[k] : k \in 1..Len(result)}

\* The facets that have at least one term
WithTerms(q) == {q[i] : i \in {j \in 1..Len(q) : Len(q[j].terms) >= 1}}

KnownFields(q) == \A e \in WithTerms(q) : e.field \in RegistryFields \cup {"any"}

\* The query without its facets of zero terms
RECURSIVE StripEmpty(_)
StripEmpty(q) ==
    IF q = <<>> THEN <<>>
    ELSE (IF Len(Head(q).terms) = 0 THEN <<>> ELSE <<Head(q)>>) \o StripEmpty(Tail(q))

\* The ids of the annotations that have a non-empty id and satisfy Keep, in
\* the order of the collection
RECURSIVE IdsInOrder(_, _)
IdsInOrder(anns, Keep) ==
    IF anns = <<>> THEN <<>>
    ELSE (IF NonEmptyId(Head(anns)) /\ Head(anns) \in Keep
          THEN <<Head(anns).id[1]>> ELSE <<>>) \o IdsInOrder(Tail(anns), Keep)

AnnotationSet == {annotations[i] : i \in 1..Len(annotations)}

\* The k-th smallest element of a set of indices
Kth(K, k) == CHOOSE i \in K : Cardinality({j \in K : j <= i}) = k

-----------------------------------------------------------------------------
(* C1: for a query whose non-empty facets all name registry fields or     *)
(* "any", the call returns, and an id is in the result if and only if     *)
(* some annotation carries it, it is not empty, and the root filter built *)
(* from the query matches that annotation; an annotation with a missing   *)
(* or empty id contributes nothing.                                       *)
C1_IdInResultIffMatch ==
    (Called /\ KnownFields(filters)) =>
        /\ outcome = "returned"
        /\ "" \notin ResultIds
        /\ \A x \in ResultIds \cup {"", "a1", "a2"} :
              x \in ResultIds <=>
                 \E i \in 1..Len(annotations) :
                    /\ annotations[i].id = Some(x)
                    /\ x # ""
                    /\ matches(rootFilter(filters), annotations[i], readAt)

\* A matching annotation without an id is left out while another is returned.
C1_Witness ==
    /\ outcome = "returned"
    /\ WithTerms(filters) # {}
    /\ result # <<>>
    /\ \E i \in 1..Len(annotations) :
          /\ ~NonEmptyId(annotations[i])
          /\ matches(rootFilter(filters), annotations[i], readAt)

(* C2: a query with a facet of at least one term whose field is neither   *)
(* in the registry nor "any" raises no error: the call returns a list.    *)
C2_NoErrorForUnknownField ==
    (Called /\ ~KnownFields(filters)) => outcome = "returned"

(* C5: facets with zero terms are no-ops: the call ends as it does for    *)
(* the query without them, whatever their field name and operator, and a  *)
(* query of only such facets returns the id of every annotation that has  *)
(* a non-empty id, in the original order.                                 *)
C5_EmptyFacetsAreNoOps ==
    Called =>
        /\ [outcome |-> outcome, result |-> result]
              = callResult(annotations, StripEmpty(filters), readAt)
        /\ WithTerms(filters) = {} =>
              /\ outcome = "returned"
              /\ result = IdsInOrder(annotations, AnnotationSet)

\* Two empty facets, one under an unknown field and one with operator "or",
\* and some but not all annotations have an id.
C5_Witness ==
    /\ outcome = "returned"
    /\ Len(filters) = 2
    /\ WithTerms(filters) = {}
    /\ \E i \in 1..2 : filters[i].operator = "or"
    /\ \E i \in 1..2 : filters[i].field = "result"
    /\ result # <<>>
    /\ Len(result) < Len(annotations)

(* C6: the result is a stable filter of the input: its k-th element is    *)
(* the id of the k-th matching annotation of the collection, once per     *)
(* matching element, duplicates kept.                                     *)
C6_StableFilter ==
    outcome = "returned" =>
        LET K == {i \in 1..Len(annotations) :
                     /\ NonEmptyId(annotations[i])
                     /\ matches(rootFilter(filters), annotations[i], readAt)}
        IN  /\ Len(result) = Cardinality(K)
            /\ \A k \in 1..Len(result) : result[k] = annotations[Kth(K, k)].id[1]

\* Two matching annotations with different ids, under a query with a term.
C6_Witness ==
    /\ outcome = "returned"
    /\ WithTerms(filters) # {}
    /\ Len(result) = 2
    /\ result[1] # result[2]

-----------------------------------------------------------------------------
(* Vocabulary of the properties about matching *)

\* needle occurs in hay: hay is some prefix, then needle, then some suffix
Within(needle, hay) ==
    \E a \in 0..Len(hay) :
        /\ a + Len(needle) <= Len(hay)
        /\ \A k \in 1..Len(needle) : hay[a + k] = needle[k]

\* The normalized term occurs in the normalized value
Occurs(term, value) == Within(normalizeStr(term), normalizeStr(value))

TagsOf(ann) == {ann.tags[k] : k \in 1..Len(ann.tags)}

QuoteOf(ann) == IF Len(ann.quote) = 0 THEN <<>> ELSE ann.quote[1]

DisplayNameOf(ann) ==
    IF Len(ann.user_info) = 0 THEN <<>>
    ELSE IF Len(ann.user_info[1].display_name) = 0 THEN <<>>
         ELSE ann.user_info[1].display_name[1]

\* The values a text-like field offers for matching
ValuesOf(field, ann) ==
    CASE field = "quote" -> {QuoteOf(ann)}
      [] field = "text"  -> {ann.text}
      [] field = "tag"   -> TagsOf(ann)
      [] field = "uri"   -> {ann.uri}
      [] field = "user"  -> {ann.user, DisplayNameOf(ann)}

\* One term of a facet of `field` is matched by the annotation
TermHit(field, term, ann) ==
    IF field = "any"
    THEN \E f \in {"quote", "text", "tag", "user"} :
             TermFilterMatches(TermFilter(term, f), ann, readAt)
    ELSE TermFilterMatches(TermFilter(term, field), ann, readAt)

\* The facet is satisfied under its own operator
FacetSatisfied(e, ann) ==
    IF e.operator = "and"
    THEN \A t \in 1..Len(e.terms) : TermHit(e.field, e.terms[t], ann)
    ELSE \E t \in 1..Len(e.terms) : TermHit(e.field, e.terms[t], ann)

\* The query is one facet of one term
SingleTerm(q) == Len(q) = 1 /\ Len(q[1].terms) = 1

(* C3: a query {any: {terms: [t], operator: "or"}} returns exactly the    *)
(* ids of the annotations with a non-empty id in which the normalized t   *)
(* occurs in the normalized text, quote, some tag, user identifier or     *)
(* display name; an occurrence in uri alone does not count.               *)
C3_AnyExpansion ==
    (Called /\ SingleTerm(filters) /\ filters[1].field = "any"
            /\ filters[1].operator = "or") =>
        LET t == filters[1].terms[1]
            Hits == {a \in AnnotationSet :
                        \/ Occurs(t, a.text)
                        \/ Occurs(t, QuoteOf(a))
                        \/ \E g \in TagsOf(a) : Occurs(t, g)
                        \/ Occurs(t, a.user)
                        \/ Occurs(t, DisplayNameOf(a))}
        IN  /\ outcome = "returned"
            /\ result = IdsInOrder(annotations, Hits)

\* The term occurs only in the uri of one annotation, which is left out,
\* and in the display name of another, which is returned.
C3_Witness ==
    /\ outcome = "returned"
    /\ SingleTerm(filters)
    /\ filters[1].field = "any"
    /\ filters[1].operator = "or"
    /\ filters[1].terms[1] = <<"A">>
    /\ \E i, j \in 1..Len(annotations) :
          /\ annotations[i].id = Some("uri")
          /\ Occurs(<<"A">>, annotations[i].uri)
          /\ annotations[j].id = Some("name")
    /\ result = <<"name">>

(* C4: facets of different fields combine with AND and the terms of one   *)
(* facet combine with the facet's own operator: the result is exactly the *)
(* annotations that satisfy every non-empty facet, an "or" facet being    *)
(* satisfied by one matching term and an "and" facet by all its terms.    *)
C4_AndAcrossFacets ==
    (Called /\ KnownFields(filters)) =>
        /\ outcome = "returned"
        /\ result = IdsInOrder(annotations,
                        {a \in AnnotationSet :
                            \A e \in WithTerms(filters) : FacetSatisfied(e, a)})

\* Two facets; the text facet has two different terms under "or"; the
\* annotation returned matches only one of them, and the one left out
\* satisfies the text facet but not the tag facet.
C4_Witness ==
    /\ outcome = "returned"
    /\ Len(filters) = 2
    /\ filters[1].field = "text" /\ filters[1].operator = "or"
    /\ filters[1].terms = << <<"a">>, <<"b">> >>
    /\ filters[2].field = "tag" /\ Len(filters[2].terms) >= 1
    /\ annotations = << [BaseAnnotation EXCEPT !.id = Some("a"), !.text = <<"a">>],
                        [BaseAnnotation EXCEPT !.id = Some("a+tag"), !.text = <<"a">>,
                                               !.tags = << <<"a">> >>] >>
    /\ result = <<"a+tag">>

(* C10: a single-term query on one text-like field returns exactly the    *)
(* ids of the annotations with a non-empty id for which some value of     *)
(* that field contains the normalized term after normalization; with no   *)
(* value (zero tags) nothing matches, not even the empty term.            *)
C10_SomeValueContainsTerm ==
    (Called /\ SingleTerm(filters) /\ filters[1].field \in StringFields) =>
        LET t == filters[1].terms[1]
            f == filters[1].field
            Hits == {a \in AnnotationSet : \E v \in ValuesOf(f, a) : Occurs(t, v)}
        IN  /\ outcome = "returned"
            /\ \A a \in AnnotationSet : (f = "tag" /\ a.tags = <<>>) => a \notin Hits
            /\ result = IdsInOrder(annotations, Hits)

\* The empty term on the tag field: the annotation without tags is left
\* out and the annotation with two tags is returned.
C10_Witness ==
    /\ outcome = "returned"
    /\ SingleTerm(filters)
    /\ filters[1].field = "tag"
    /\ filters[1].terms[1] = <<>>
    /\ Len(annotations) = 2
    /\ annotations[1].tags = <<>>
    /\ Len(annotations[2].tags) = 2
    /\ result = <<"tag2">>

-----------------------------------------------------------------------------
(* Vocabulary of the properties about `since` *)

\* The query has a since facet with at least one term
HasSince(q) == \E e \in WithTerms(q) : e.field = "since"

\* Milliseconds between the annotation's update and the last call
AgeMs(ann) == readAt - ann.updated.ms

WellFormed(anns) == SelectSeq(anns, LAMBDA a : a.updated.iso)

(* C7: a since term of T seconds matches an annotation exactly when its   *)
(* age, (clock - updated in ms) / 1000, is at most T; an annotation       *)
(* updated exactly T seconds ago matches.                                 *)
C7_SinceAtMostTSeconds ==
    (Called /\ SingleTerm(filters) /\ filters[1].field = "since") =>
        LET T == filters[1].terms[1]
        IN  /\ outcome = "returned"
            /\ result = IdsInOrder(annotations,
                            {a \in AnnotationSet : a.updated.iso /\ AgeMs(a) <= 1000 * T})

\* T = 60: the annotation updated exactly 60 s ago is returned, the one
\* updated 120 s ago is not.
C7_Witness ==
    /\ outcome = "returned"
    /\ SingleTerm(filters)
    /\ filters[1].field = "since"
    /\ filters[1].terms[1] = 60
    /\ Len(annotations) = 2
    /\ annotations[1].updated.iso /\ AgeMs(annotations[1]) = 120000
    /\ annotations[2].updated.iso /\ AgeMs(annotations[2]) = 60000
    /\ result = <<annotations[2].id[1]>>
    /\ annotations[1].id # annotations[2].id

(* C8: an unparseable updated timestamp does not abort a since query: the *)
(* call returns, the malformed annotation does not match, and the others  *)
(* are returned as they would be without it.                              *)
C8_MalformedUpdatedDoesNotMatch ==
    (Called /\ HasSince(filters)) =>
        /\ outcome = "returned"
        /\ result = callResult(WellFormed(annotations), filters, readAt).result

\* A malformed annotation is left out and a well-formed one is returned.
C8_Witness ==
    /\ outcome = "returned"
    /\ HasSince(filters)
    /\ Len(annotations) = 2
    /\ ~annotations[1].updated.iso
    /\ annotations[2].updated.iso
    /\ annotations[1].id # annotations[2].id
    /\ result = <<annotations[2].id[1]>>

(* C9: two invocations with the same annotations and the same query       *)
(* return the same list, whatever happens between them, and modify        *)
(* neither input.                                                         *)
C9_SameResultEveryCall ==
    [][/\ (outcome = "returned" /\ outcome' = "returned") => result' = result
       /\ annotations' = annotations
       /\ filters' = filters]_vars

(* C9, amended: two invocations with the same annotations and the same    *)
(* query return the same list when the query has no non-empty since facet *)
(* or Date.now() reads the same in both; neither input is modified.       *)
C9_SameResultSameClock ==
    [][/\ (outcome # "idle" /\ outcome' # "idle"
              /\ (~HasSince(filters) \/ readAt' = readAt))
          => (outcome' = outcome /\ result' = result)
       /\ annotations' = annotations
       /\ filters' = filters]_vars

\* A repeated call, after the clock has moved, of a query without a since
\* facet that returns one of two annotations.
C9_Witness ==
    /\ repeated
    /\ outcome = "returned"
    /\ ~HasSince(filters)
    /\ WithTerms(filters) # {}
    /\ readAt > 120000
    /\ Len(annotations) = 2
    /\ Len(result) = 1

=============================================================================
